---- MODULE Spec2Model ----
(***************************************************************************)
(* A model of openmdao.util.eggwriter: write(), which assembles an egg     *)
(* (shell prefix + zip container) directly, and write_via_setuptools(),    *)
(* which writes setup.py and drives an external build tool.                *)
(*                                                                         *)
(* Text that the code compares, sorts, splits or strips (paths, names,     *)
(* lines) is a sequence of one-character strings.  Template text whose     *)
(* only use is its length is kept as string literals; a blob is a sequence *)
(* of such pieces and its length is the sum of the pieces' lengths.        *)
(***************************************************************************)
EXTENDS Integers, Sequences, FiniteSets, TLC

VARIABLES
    \* ---- the request and the environment (inputs, fixed during a call)
    src_files,      \* explicit source paths, relative to <name>/
    distributions,  \* sequence of [project_name, version]
    compress,       \* the compress flag of write()
    fs,             \* regular files on disk, each a sequence of components
    fsize,          \* size in bytes of each file on disk
    nameIsLink,     \* os.path.islink(name)
    listdirRev,     \* the (arbitrary) order in which os.walk lists a directory
    shrink,         \* how well the data deflates (1: not at all)
    egg0,           \* the destination file before the call
    \* ---- write()
    pc,             \* position in the running function
    files,          \* the manifest: list of paths
    bytes,          \* the approximate size computed by the code
    sources,        \* list of lines, then (after sorting) the SOURCES.txt blob
    requirements,   \* the requires.txt blob (sequence of lines)
    zip64,          \* the allowZip64 flag the container is opened with
    egg,            \* the destination file
    next,           \* index of the next metadata entry / manifest entry
    log,            \* the log sink: sequence of [level, msg]
    result,         \* what the call ended with: the filename, or the error
    \* ---- write_via_setuptools()
    setup_py,       \* the file setup.py: what was written, and whether it is closed
    script,         \* the lines the external tool still has to print
    printed,        \* the lines the tool has printed so far (history)
    exitcode,       \* the exit code the tool ends with
    exited,         \* the tool process has exited
    spawned,        \* subprocess.Popen has been called
    pipe,           \* lines written by the tool, not yet read
    returncode,     \* proc.returncode (None until poll() sees the exit)
    output          \* the list of lines read so far

inputs  == <<src_files, distributions, compress, fs, fsize, nameIsLink,
             listdirRev, shrink, egg0>>
wvars   == <<files, bytes, sources, requirements, zip64, egg, next>>
svars   == <<setup_py, script, printed, exitcode, exited, spawned, pipe,
             returncode, output>>
vars    == <<inputs, wvars, svars, pc, log, result>>

\* Python's None, for a variable that otherwise holds a one-element sequence.
None == <<>>

\* A path with no file at it; a file is [exists |-> TRUE, segs |-> its bytes].
NoFile == [exists |-> FALSE, segs |-> <<>>]

File(segs) == [exists |-> TRUE, segs |-> segs]

\* setup.py before write_via_setuptools() creates it.
NoSetupPy == [exists |-> FALSE, chunks |-> <<>>, closed |-> TRUE]

\* What a call ended with.
Running     == [kind |-> "running", value |-> <<>>]
Returned(v) == [kind |-> "returned", value |-> v]
Raised(e)   == [kind |-> "raised", value |-> <<e>>]

\* ------------------------------------------------------------------ text

\* The characters the model uses, in ASCII order.
Alphabet ==
    << "\t", "\n", "\r", " ", "-", ".", "/",
       "0", "1", "2", "3", "4", "5", "6", "7", "8", "9", "=",
       "A", "B", "C", "D", "E", "F", "G", "H", "I", "J", "K", "L", "M",
       "N", "O", "P", "Q", "R", "S", "T", "U", "V", "W", "X", "Y", "Z", "_",
       "a", "b", "c", "d", "e", "f", "g", "h", "i", "j", "k", "l", "m",
       "n", "o", "p", "q", "r", "s", "t", "u", "v", "w", "x", "y", "z" >>

Ord == [c \in {Alphabet[i] : i \in 1..Len(Alphabet)} |->
            CHOOSE i \in 1..Len(Alphabet) : Alphabet[i] = c]

RECURSIVE LeqFrom(_, _, _)
LeqFrom(a, b, i) ==
    IF i > Len(a) THEN TRUE
    ELSE IF i > Len(b) THEN FALSE
    ELSE IF a[i] = b[i] THEN LeqFrom(a, b, i + 1)
    ELSE Ord[a[i]] < Ord[b[i]]

\* Python's str <= str: lexicographic by character code.
StrLeq(a, b) == LeqFrom(a, b, 1)

EndsWith(s, suf) ==
    /\ Len(s) >= Len(suf)
    /\ SubSeq(s, Len(s) - Len(suf) + 1, Len(s)) = suf

StartsWith(s, pre) ==
    /\ Len(s) >= Len(pre)
    /\ SubSeq(s, 1, Len(pre)) = pre

RECURSIVE Concat(_)
Concat(ss) == IF ss = <<>> THEN <<>> ELSE Head(ss) \o Concat(Tail(ss))

RECURSIVE TextLen(_)
\* len() of a blob kept as a sequence of pieces.
TextLen(t) == IF t = <<>> THEN 0 ELSE Len(Head(t)) + TextLen(Tail(t))

RECURSIVE SumSeq(_)
SumSeq(s) == IF s = <<>> THEN 0 ELSE Head(s) + SumSeq(Tail(s))

\* os.path.join(a, b) for a relative b and a non-empty a.
Join(a, b) == a \o <<"/">> \o b

RECURSIVE JoinAll(_)
\* The path string of a sequence of components.
JoinAll(cs) == IF Len(cs) = 1 THEN cs[1] ELSE Join(JoinAll(SubSeq(cs, 1, Len(cs) - 1)), cs[Len(cs)])

RECURSIVE InsertStr(_, _)
InsertStr(e, s) ==
    IF s = <<>> THEN <<e>>
    ELSE IF StrLeq(s[Len(s)], e) THEN Append(s, e)
    ELSE Append(InsertStr(e, SubSeq(s, 1, Len(s) - 1)), s[Len(s)])

RECURSIVE SortedStrs(_)
\* sorted(list of str)
SortedStrs(s) ==
    IF s = <<>> THEN <<>>
    ELSE InsertStr(s[Len(s)], SortedStrs(SubSeq(s, 1, Len(s) - 1)))

Whitespace == {" ", "\t", "\n", "\r"}

RECURSIVE RStrip(_)
\* str.rstrip()
RStrip(s) ==
    IF s # <<>> /\ s[Len(s)] \in Whitespace
    THEN RStrip(SubSeq(s, 1, Len(s) - 1))
    ELSE s

RECURSIVE LStrip(_)
LStrip(s) == IF s # <<>> /\ Head(s) \in Whitespace THEN LStrip(Tail(s)) ELSE s

\* str.strip()
Strip(s) == LStrip(RStrip(s))

\* str.replace(old, new) for single characters.
Replace(s, old, new) == [i \in 1..Len(s) |-> IF s[i] = old THEN new ELSE s[i]]

\* s.split(sep) for a single-character sep.
SplitOn(s, sep) ==
    LET at    == {i \in 1..Len(s) : s[i] = sep}
        n     == Cardinality(at)
        pos(k) == IF k = 0 THEN 0
                  ELSE IF k = n + 1 THEN Len(s) + 1
                  ELSE CHOOSE p \in at : Cardinality({q \in at : q < p}) = k - 1
    IN  [k \in 1..(n + 1) |-> SubSeq(s, pos(k - 1) + 1, pos(k) - 1)]

\* The lines of a text, each with its terminator (str.splitlines(True)).
Lines(s) ==
    LET parts == SplitOn(s, "\n")
    IN  [i \in 1..(Len(parts) - 1) |-> Append(parts[i], "\n")]
        \o (IF parts[Len(parts)] = <<>> THEN <<>> ELSE <<parts[Len(parts)]>>)

\* --------------------------------------------------------- the request

\* The arguments that no claim varies.
name    == <<"p", "_", "k">>
version == <<"1", ".", "0">>
doc     == <<" ", "d", "o", "c", "\n">>
loader  == <<"l", "d", "r">>
dst_dir == <<"d", "s", "t">>

\* sys.version[:3]
PyVersion == <<"2", ".", "6">>

\* The standard zip size limit, zipfile.ZIP64_LIMIT (2^31 - 1 in the library).
\* The code only compares sizes against it, so the model scales it down to
\* keep every sum inside the checker's integers.
ZIP64_LIMIT == 3880

PY      == <<".", "p", "y">>
INIT_PY == <<"_", "_", "i", "n", "i", "t", "_", "_">> \o PY
DOT     == <<".">>

egg_filename(n, v) ==
    n \o <<"-">> \o v \o <<"-", "p", "y">> \o PyVersion \o <<".", "e", "g", "g">>

egg_name == egg_filename(name, version)
egg_path == Join(dst_dir, egg_name)

\* ------------------------------------------------------ the file system

TopMod   == << <<"t", "o", "p">> \o PY >>
OtherMod == << <<"q">>, <<"b">> \o PY >>
PkgInit  == << name, INIT_PY >>
PkgMod   == << name, <<"m">> \o PY >>
PkgData  == << name, <<"d", ".", "t", "x", "t">> >>
SubInit  == << name, <<"s">>, INIT_PY >>
SubMod   == << name, <<"s">>, <<"n">> \o PY >>

AlwaysThere == {TopMod, OtherMod, PkgMod}
Optional    == {PkgInit, PkgData, SubInit, SubMod}
Universe    == AlwaysThere \cup Optional

FsChoices   == {AlwaysThere \cup X : X \in SUBSET Optional}

\* Every file is a few bytes long, but for the package's module and its data
\* file, which may be large against ZIP64_LIMIT.
SizeChoices ==
    {[f \in Universe |-> IF f = PkgMod THEN ab[1] ELSE IF f = PkgData THEN ab[2] ELSE 8] :
        ab \in {<<8, 8>>, <<8, 2000>>, <<8, 3000>>, <<3000, 3000>>}}

SrcChoices ==
    { <<>>,
      << PkgData[2] >>,
      << Join(SubMod[2], SubMod[3]) >>,
      << Join(SubMod[2], SubMod[3]), PkgData[2] >> }

Dist(p, v) == [project_name |-> p, version |-> v]
Numpy11 == Dist(<<"n", "u", "m", "p", "y">>, <<"1", ".", "1">>)
Numpy12 == Dist(<<"n", "u", "m", "p", "y">>, <<"1", ".", "2">>)
Six10   == Dist(<<"s", "i", "x">>, <<"1", ".", "0">>)

DistChoices ==
    { <<>>, <<Six10, Numpy12>>, <<Numpy12, Numpy11>> }

\* The components of a path string, without a leading "." component.
Components(path) ==
    LET cs == SplitOn(path, "/")
    IN  IF Head(cs) = DOT THEN Tail(cs) ELSE cs

\* os.path.exists(path) for a regular file.
Exists(path) == Components(path) \in fs

\* os.path.getsize(path) of an existing file.
GetSize(path) == fsize[Components(path)]

IsPrefix(d, f) == Len(f) > Len(d) /\ SubSeq(f, 1, Len(d)) = d

RECURSIVE SeqOfSet(_)
SeqOfSet(S) ==
    IF S = {} THEN <<>>
    ELSE LET x == CHOOSE y \in S : TRUE IN <<x>> \o SeqOfSet(S \ {x})

Reverse(s) == [i \in 1..Len(s) |-> s[Len(s) + 1 - i]]

\* os.listdir(d), split as os.walk splits it into (dirnames, filenames).  The
\* order of a listing is arbitrary: the model takes it ascending or descending.
ListDir(d) ==
    LET all   == {f[Len(d) + 1] : f \in {g \in fs : IsPrefix(d, g)}}
        asc   == SortedStrs(SeqOfSet(all))
        names == IF listdirRev THEN Reverse(asc) ELSE asc
        isDir(n) == \E g \in fs : IsPrefix(Append(d, n), g)
    IN  [dirnames  |-> SelectSeq(names, isDir),
         filenames |-> SelectSeq(names, LAMBDA n : ~isDir(n))]

\* os.path.islink of a directory: only <name> may be a symbolic link.
IsLink(d) == d = <<name>> /\ nameIsLink

\* Lines 49-52 / 62-65 without the pruning.
KeptDirsUnpruned(d, dirnames) == dirnames

\* The pruning of lines 49-52 / 62-65: a subdirectory stays in dirnames only
\* if it holds a package marker.
KeptDirs(d, dirnames) ==
    SelectSeq(dirnames, LAMBDA n : Append(Append(d, n), INIT_PY) \in fs)

\* The module files of one directory, lines 53-55 / 66-68.
PyFiles(dirpath, filenames) ==
    LET py == SelectSeq(filenames, LAMBDA n : EndsWith(n, PY))
    IN  [i \in 1..Len(py) |-> Join(dirpath, py[i])]

RECURSIVE Walk(_, _)
\* The paths the loop body collects over os.walk(dirpath), in the order it
\* meets them.  os.walk does not follow a symbolic link to a directory.
Walk(d, dirpath) ==
    LET ls   == ListDir(d)
        kept == KeptDirs(d, ls.dirnames)
        into == SelectSeq(kept, LAMBDA n : ~IsLink(Append(d, n)))
    IN  PyFiles(dirpath, ls.filenames)
        \o Concat([i \in 1..Len(into) |->
                      Walk(Append(d, into[i]), Join(dirpath, into[i]))])

\* Lines 41-43: the explicit sources, resolved under <name>/.
ExplicitPaths == [i \in 1..Len(src_files) |-> Join(name, src_files[i])]

\* Lines 48-58.
FirstPass == Walk(<<>>, DOT)

\* Lines 60-71.
SecondPass == IF nameIsLink THEN Walk(<<name>>, name) ELSE <<>>

\* ------------------------------------------------------------ the blobs

\* Lines 74-83.  The two backquotes of line 76 are written as apostrophes (a
\* string of the model cannot hold a backquote); the length is the same.
sh_prefix ==
    << "#!/bin/sh\n",
       "if [ 'basename $0' = \"", egg_name, "\" ]\n",
       "then exec python", PyVersion,
       " -c \"import sys, os; sys.path.insert(0, os.path.abspath('$0')); ",
       "from openmdao.main.component import eggsecutable; ",
       "sys.exit(eggsecutable())\" \"$@\"\n",
       "else\n",
       "  echo $0 is not the correct name for this egg file.\n",
       "  echo Please rename it back to ", egg_name, " and try again.\n",
       "  exec false\n",
       "fi\n" >>

\* Lines 87-98.
pkg_info ==
    << "Metadata-Version: 1.0\n",
       "Name: ", Replace(name, "_", "-"), "\n",
       "Version: ", version, "\n",
       "Summary: ", Strip(doc), "\n",
       "Home-page: UNKNOWN\n",
       "Author: UNKNOWN\n",
       "Author-email: UNKNOWN\n",
       "License: UNKNOWN\n",
       "Description: UNKNOWN\n",
       "Platform: UNKNOWN\n" >>

\* Line 103.
dependency_links == << "\n" >>

\* Lines 108-118.
entry_points ==
    << "[openmdao.components]\n",
       name, " = ", name, ".", loader, ":load\n",
       "\n",
       "[openmdao.top]\n",
       "top = ", loader, ":load\n",
       "\n",
       "[setuptools.installation]\n",
       "eggsecutable = openmdao.main.component:eggsecutable\n",
       "\n" >>

\* Line 123.
not_zip_safe == << "\n" >>

\* Line 135.
top_level == << name, "\n" >>

RECURSIVE InsertDist(_, _)
InsertDist(e, s) ==
    IF s = <<>> THEN <<e>>
    ELSE IF StrLeq(s[Len(s)].project_name, e.project_name) THEN Append(s, e)
    ELSE Append(InsertDist(e, SubSeq(s, 1, Len(s) - 1)), s[Len(s)])

RECURSIVE SortedByProject(_)
\* sorted(distributions, key=lambda dist: dist.project_name): Python's sort is
\* stable, so distributions of one project keep the order they came in.
SortedByProject(s) ==
    IF s = <<>> THEN <<>>
    ELSE InsertDist(s[Len(s)], SortedByProject(SubSeq(s, 1, Len(s) - 1)))

\* '%s == %s\n' % (dist.project_name, dist.version)
RequirementLine(dist) ==
    dist.project_name \o <<" ", "=", "=", " ">> \o dist.version \o <<"\n">>

\* Lines 128-130.
Requirements(dists) ==
    LET ds == SortedByProject(dists)
    IN  Concat([i \in 1..Len(ds) |-> RequirementLine(ds[i])])

EggInfoDir == name \o <<".", "e", "g", "g", "-", "i", "n", "f", "o">>

PKG_INFO_TXT         == <<"P", "K", "G", "-", "I", "N", "F", "O">>
DEPENDENCY_LINKS_TXT == <<"d", "e", "p", "e", "n", "d", "e", "n", "c", "y", "_",
                          "l", "i", "n", "k", "s", ".", "t", "x", "t">>
ENTRY_POINTS_TXT     == <<"e", "n", "t", "r", "y", "_", "p", "o", "i", "n", "t",
                          "s", ".", "t", "x", "t">>
NOT_ZIP_SAFE_TXT     == <<"n", "o", "t", "-", "z", "i", "p", "-", "s", "a", "f", "e">>
REQUIRES_TXT         == <<"r", "e", "q", "u", "i", "r", "e", "s", ".", "t", "x", "t">>
TOP_LEVEL_TXT        == <<"t", "o", "p", "_", "l", "e", "v", "e", "l", ".", "t", "x", "t">>
SOURCES_TXT          == <<"S", "O", "U", "R", "C", "E", "S", ".", "t", "x", "t">>

\* The names of lines 156-162, in the order of the calls.
InfoNames ==
    << PKG_INFO_TXT, DEPENDENCY_LINKS_TXT, ENTRY_POINTS_TXT, NOT_ZIP_SAFE_TXT,
       REQUIRES_TXT, TOP_LEVEL_TXT, SOURCES_TXT >>

\* The self-reference lines appended to sources, in the order of lines 99-140.
SelfReferences ==
    LET order == << PKG_INFO_TXT, DEPENDENCY_LINKS_TXT, ENTRY_POINTS_TXT,
                    NOT_ZIP_SAFE_TXT, REQUIRES_TXT, TOP_LEVEL_TXT, SOURCES_TXT >>
    IN  [i \in 1..Len(order) |-> Join(EggInfoDir, order[i]) \o <<"\n">>]

\* The sources list: one line per path met by the traversal (lines 58, 71),
\* then the self-references.
SourcesList(found) ==
    [i \in 1..Len(found) |-> found[i] \o <<"\n">>] \o SelfReferences

\* Line 141 without its sort.
SourcesBlobUnsorted(found) == Concat(SourcesList(found))

\* Line 141: ''.join(sorted(sources)).
SourcesBlob(found) == Concat(SortedStrs(SourcesList(found)))

\* The value of `bytes` at line 142.  Line 120 adds len(dependency_links)
\* where the entry-points blob was just built.
ApproxBytes(fileList, req, src) ==
    SumSeq([i \in 1..Len(fileList) |-> GetSize(fileList[i])])
    + TextLen(sh_prefix)
    + TextLen(pkg_info)
    + TextLen(dependency_links)
    + TextLen(dependency_links)
    + TextLen(not_zip_safe)
    + Len(req)
    + TextLen(top_level)
    + Len(src)

\* ----------------------------------------------------- the destination

\* One stretch of bytes of the destination file.
Seg(k, n, sz) == [kind |-> k, name |-> n, size |-> sz]

\* A file that was at the destination before the call.
OldEgg == File(<< Seg("old", <<>>, 64) >>)

\* os.path.getsize(egg_path)
EggSize == SumSeq([i \in 1..Len(egg.segs) |-> egg.segs[i].size])

\* The name zipfile stores for a path: os.path.normpath drops a leading "./".
ArcName(path) ==
    IF StartsWith(path, <<".", "/">>) THEN SubSeq(path, 3, Len(path)) ELSE path

\* The bytes an entry's data takes in the container: as is when stored
\* (compress false), deflated otherwise.
Stored(n) == IF compress THEN n \div shrink ELSE n

\* zipfile's _writecheck, run by writestr() and write(): without allowZip64 an
\* entry larger than the limit, or starting beyond it, raises LargeZipFile.
WriteCheckFails(n) == ~zip64 /\ (n > ZIP64_LIMIT \/ EggSize > ZIP64_LIMIT)

\* A zip entry: local header (30 bytes and the name), then the data.
Entry(k, path, n) ==
    Seg(k, path, 30 + Len(ArcName(path)) + Stored(n))

\* The central directory and the end record written by close(): 46 bytes and
\* the name per entry, and 22 bytes.
Directory ==
    LET es == SelectSeq(egg.segs, LAMBDA e : e.kind \in {"info", "file"})
    IN  Seg("directory", <<>>,
            SumSeq([i \in 1..Len(es) |-> 46 + Len(ArcName(es[i].name))]) + 22)

Logged(level, msg) == Append(log, [level |-> level, msg |-> msg])

\* The seven blobs in the order lines 156-162 write them.
InfoBlobs ==
    << pkg_info, dependency_links, entry_points, not_zip_safe,
       <<requirements>>, top_level, <<sources>> >>

\* ----------------------------------------------------------- write()

\* Line 44 run for the first explicit source only.
MissingExplicitFirstOnly == Len(src_files) > 0 /\ ~Exists(ExplicitPaths[1])

\* Line 44 raises OSError for the first explicit path that is not on disk.
MissingExplicit == \E i \in 1..Len(src_files) : ~Exists(ExplicitPaths[i])

\* Lines 31-142: everything write() computes before it touches the destination.
Prepare ==
    /\ pc = "start"
    /\ IF MissingExplicit
       THEN /\ pc' = "failed"
            /\ result' = Raised("OSError")
            /\ UNCHANGED <<files, bytes, sources, requirements>>
       ELSE LET found == FirstPass \o SecondPass
                fl    == ExplicitPaths \o found
                req   == Requirements(distributions)
                src   == SourcesBlob(found)
            IN  /\ files' = fl
                /\ requirements' = req
                /\ sources' = src
                /\ bytes' = ApproxBytes(fl, req, src)
                /\ pc' = "sized"
                /\ UNCHANGED result
    /\ UNCHANGED <<inputs, svars, zip64, egg, next, log>>

\* Lines 144-148 with the destination opened in append mode.
CreatePrefixAppending ==
    /\ pc = "sized"
    /\ log' = Logged("debug", <<"Creating", egg_path>>)
    /\ egg' = File(Append(egg.segs, Seg("prefix", <<>>, TextLen(sh_prefix))))
    /\ pc' = "prefixed"
    /\ UNCHANGED <<inputs, svars, files, bytes, sources, requirements, zip64,
                   next, result>>

\* Lines 144-148: open(egg_path, 'w') creates or truncates the destination,
\* then the shell prefix is written and the file closed.
CreatePrefix ==
    /\ pc = "sized"
    /\ log' = Logged("debug", <<"Creating", egg_path>>)
    /\ egg' = File(<< Seg("prefix", <<>>, TextLen(sh_prefix)) >>)
    /\ pc' = "prefixed"
    /\ UNCHANGED <<inputs, svars, files, bytes, sources, requirements, zip64,
                   next, result>>

\* Lines 150-153: the container is opened in append mode on the prefix.
OpenZip ==
    /\ pc = "prefixed"
    /\ zip64' = (bytes > ZIP64_LIMIT)
    /\ next' = 1
    /\ pc' = "info"
    /\ UNCHANGED <<inputs, svars, files, bytes, sources, requirements, egg,
                   log, result>>

\* One call of _write_info (lines 156-162, 173-177).
WriteInfo ==
    /\ pc = "info"
    /\ LET path == Join(<<"E", "G", "G", "-", "I", "N", "F", "O">>, InfoNames[next])
           info == InfoBlobs[next]
       IN  /\ log' = Logged("debug", <<"adding", path>>)
           /\ IF WriteCheckFails(TextLen(info))
              THEN /\ pc' = "failed"
                   /\ result' = Raised("LargeZipFile")
                   /\ UNCHANGED <<egg, next>>
              ELSE /\ egg' = File(Append(egg.segs, Entry("info", path, TextLen(info))))
                   /\ IF next < Len(InfoNames)
                      THEN next' = next + 1 /\ pc' = "info"
                      ELSE next' = 1 /\ pc' = "files"
                   /\ UNCHANGED result
    /\ UNCHANGED <<inputs, svars, files, bytes, sources, requirements, zip64>>

\* Line 165 without its sort: the manifest in the order it was collected.
ManifestOrderUnsorted == files

\* Line 165: sorted(files).
ManifestOrder == SortedStrs(files)

\* One turn of the loop of lines 165-166 (_write_file, lines 179-182).
WriteFile ==
    /\ pc = "files"
    /\ next <= Len(files)
    /\ LET path == ManifestOrder[next]
       IN  /\ log' = Logged("debug", <<"adding", path>>)
           /\ IF WriteCheckFails(GetSize(path))
              THEN /\ pc' = "failed"
                   /\ result' = Raised("LargeZipFile")
                   /\ UNCHANGED <<egg, next>>
              ELSE /\ egg' = File(Append(egg.segs, Entry("file", path, GetSize(path))))
                   /\ next' = next + 1
                   /\ UNCHANGED <<pc, result>>
    /\ UNCHANGED <<inputs, svars, files, bytes, sources, requirements, zip64>>

\* Line 168: egg.close() writes the central directory.
Close ==
    /\ pc = "files"
    /\ next > Len(files)
    /\ egg' = File(Append(egg.segs, Directory))
    /\ pc' = "closed"
    /\ UNCHANGED <<inputs, svars, files, bytes, sources, requirements, zip64,
                   next, log, result>>

\* Line 168 under a zipfile whose close() refuses a central directory that
\* starts beyond the limit when allowZip64 is off (later library versions).
CloseRefused ==
    /\ pc = "files"
    /\ next > Len(files)
    /\ ~zip64
    /\ EggSize > ZIP64_LIMIT
    /\ pc' = "failed"
    /\ result' = Raised("LargeZipFile")
    /\ UNCHANGED <<inputs, svars, files, bytes, sources, requirements, zip64,
                   egg, next, log>>

\* Lines 169-171 with the warning decided on the estimate, not on the file.
FinishWarnsOnEstimate ==
    /\ pc = "closed"
    /\ log' = IF bytes > ZIP64_LIMIT
              THEN Logged("warning", <<"Egg zipfile requires Zip64 support to unzip.">>)
              ELSE log
    /\ result' = Returned(egg_name)
    /\ pc' = "done"
    /\ UNCHANGED <<inputs, svars, files, bytes, sources, requirements, zip64,
                   egg, next>>

\* Lines 169-171.
Finish ==
    /\ pc = "closed"
    /\ log' = IF EggSize > ZIP64_LIMIT
              THEN Logged("warning", <<"Egg zipfile requires Zip64 support to unzip.">>)
              ELSE log
    /\ result' = Returned(egg_name)
    /\ pc' = "done"
    /\ UNCHANGED <<inputs, svars, files, bytes, sources, requirements, zip64,
                   egg, next>>

\* No call of write_via_setuptools() is in progress.
IdleSetuptools ==
    /\ setup_py = NoSetupPy
    /\ script = <<>>
    /\ printed = <<>>
    /\ exitcode = 0
    /\ exited = FALSE
    /\ spawned = FALSE
    /\ pipe = <<>>
    /\ returncode = None
    /\ output = <<>>

\* write() has been called.
InitWrite ==
    /\ src_files \in SrcChoices
    /\ distributions \in DistChoices
    /\ compress \in BOOLEAN
    /\ shrink \in {1, 4}
    /\ compress = FALSE => shrink = 1
    /\ fs \in FsChoices
    /\ fsize \in SizeChoices
    /\ nameIsLink \in BOOLEAN
    /\ listdirRev \in BOOLEAN
    /\ egg0 \in {NoFile, OldEgg}
    /\ egg = egg0
    /\ pc = "start"
    /\ files = <<>>
    /\ bytes = 0
    /\ sources = <<>>
    /\ requirements = <<>>
    /\ zip64 = FALSE
    /\ next = 0
    /\ log = <<>>
    /\ result = Running
    /\ IdleSetuptools

NextWrite ==
    \/ Prepare
    \/ CreatePrefix
    \/ OpenZip
    \/ WriteInfo
    \/ WriteFile
    \/ Close
    \/ CloseRefused
    \/ Finish

SpecWrite == InitWrite /\ [][NextWrite]_vars

\* ------------------------------------------------ write_via_setuptools()

\* The most lines the external tool prints.
MaxLines == 2

\* What the tool may print as one line: text, a blank line, text followed by
\* blanks, and a last line that lacks its terminator.
LineChoices ==
    { <<"o", "k", "\n">>, <<"\n">>, <<"e", "r", "r", " ", "\n">>, <<"x">> }

ScriptChoices ==
    { s \in UNION {[1..n -> LineChoices] : n \in 0..MaxLines} :
        \A i \in 1..(Len(s) - 1) : s[i][Len(s[i])] = "\n" }

\* Lines 229-235: the chunks written for the first k explicit sources, in
\* sorted order.
PackageFileChunks(k) ==
    LET fns == SortedStrs(src_files)
    IN  << <<"import setuptools\n">>, <<"\npackage_files = [\n">> >>
        \o [i \in 1..k |-> <<"    '", fns[i], "',\n">>]

\* Lines 235-265: the rest of setup.py.
RestOfSetupPy ==
    << <<"]\n">>, <<"\nrequirements = [\n">> >>
    \o [i \in 1..Len(distributions) |->
           <<"    '", distributions[i].project_name, " == ",
             distributions[i].version, "',\n">>]
    \o << <<"]\n">>, <<"entry_points, setuptools.setup(...)", name, loader,
                       Strip(doc), version>> >>

\* Line 232 left out: no explicit source is ever found missing.
CheckedNothingMissing == Len(src_files)

\* The sorted explicit sources that line 232 finds on disk before the first
\* one it does not (all of them if none is missing).
CheckedBeforeMissing ==
    LET fns == SortedStrs(src_files)
        bad == {i \in 1..Len(fns) : ~Exists(Join(name, fns[i]))}
    IN  IF bad = {} THEN Len(fns)
        ELSE (CHOOSE i \in bad : \A j \in bad : i <= j) - 1

\* Line 188 and lines 223-267: _write_setup_py().  open('setup.py', 'w')
\* comes first; a missing source raises ValueError out of the loop, and the
\* function is left without out.close().
WriteSetupPy ==
    /\ pc = "s_start"
    /\ LET k == CheckedBeforeMissing
       IN  IF k < Len(src_files)
           THEN /\ setup_py' = [exists |-> TRUE, chunks |-> PackageFileChunks(k),
                                closed |-> FALSE]
                /\ result' = Raised("ValueError")
                /\ pc' = "failed"
           ELSE /\ setup_py' = [exists |-> TRUE,
                                chunks |-> PackageFileChunks(k) \o RestOfSetupPy,
                                closed |-> TRUE]
                /\ pc' = "s_spawn"
                /\ UNCHANGED result
    /\ UNCHANGED <<inputs, wvars, script, printed, exitcode, exited, spawned,
                   pipe, returncode, output, log>>

\* Lines 191-197: subprocess.Popen.
Spawn ==
    /\ pc = "s_spawn"
    /\ spawned' = TRUE
    /\ output' = <<>>
    /\ pc' = "s_read"
    /\ UNCHANGED <<inputs, wvars, setup_py, script, printed, exitcode, exited,
                   pipe, returncode, log, result>>

\* The tool writes its next line to the pipe.
ToolPrint ==
    /\ spawned /\ ~exited
    /\ script # <<>>
    /\ pipe' = Append(pipe, Head(script))
    /\ printed' = Append(printed, Head(script))
    /\ script' = Tail(script)
    /\ UNCHANGED <<inputs, wvars, setup_py, exitcode, exited, spawned,
                   returncode, output, log, result, pc>>

\* The tool has nothing more to print and exits; its end of the pipe closes.
ToolExit ==
    /\ spawned /\ ~exited
    /\ script = <<>>
    /\ exited' = TRUE
    /\ UNCHANGED <<inputs, wvars, setup_py, script, printed, exitcode, spawned,
                   pipe, returncode, output, log, result, pc>>

Indent == <<" ", " ", " ", " ">>

\* Lines 201-203 / 208-210: one line taken off the pipe.
Taken(line) ==
    /\ log' = Logged("debug", Indent \o RStrip(line))
    /\ output' = Append(output, RStrip(line))
    /\ pipe' = Tail(pipe)

\* Lines 199-203: proc.stdout.readline() blocks until the tool has written a
\* line or has closed the pipe (then it returns '').
ReadLine ==
    /\ pc = "s_read"
    /\ pipe # <<>> \/ exited
    /\ IF pipe # <<>>
       THEN Taken(Head(pipe))
       ELSE UNCHANGED <<log, output, pipe>>
    /\ pc' = "s_poll"
    /\ UNCHANGED <<inputs, wvars, setup_py, script, printed, exitcode, exited,
                   spawned, returncode, result>>

\* Lines 204-205 and the loop test of line 198.
Poll ==
    /\ pc = "s_poll"
    /\ returncode' = IF exited THEN <<exitcode>> ELSE None
    /\ pc' = IF exited THEN "s_drain" ELSE "s_read"
    /\ UNCHANGED <<inputs, wvars, setup_py, script, printed, exitcode, exited,
                   spawned, pipe, output, log, result>>

\* Lines 206-211 left out: what is left in the pipe is never read.
DrainSkipped ==
    /\ pc = "s_drain"
    /\ pc' = "s_check"
    /\ UNCHANGED <<inputs, wvars, setup_py, script, printed, exitcode, exited,
                   spawned, pipe, returncode, output, log, result>>

\* Lines 206-211: the tool has exited; what is left in the pipe is read to
\* the end.
Drain ==
    /\ pc = "s_drain"
    /\ IF pipe # <<>>
       THEN Taken(Head(pipe)) /\ UNCHANGED pc
       ELSE pc' = "s_check" /\ UNCHANGED <<log, output, pipe>>
    /\ UNCHANGED <<inputs, wvars, setup_py, script, printed, exitcode, exited,
                   spawned, returncode, result>>

RECURSIVE LoggedAll(_, _, _)
LoggedAll(l, level, msgs) ==
    IF msgs = <<>> THEN l
    ELSE LoggedAll(Append(l, [level |-> level, msg |-> Head(msgs)]), level, Tail(msgs))

\* Lines 214-215: the buffered output, replayed at error level.
Replayed == LoggedAll(log, "error", [i \in 1..Len(output) |-> Indent \o output[i]])

\* Lines 213-220.
Check ==
    /\ pc = "s_check"
    /\ IF returncode # <<0>>
       THEN /\ log' = Append(Replayed,
                        [level |-> "error",
                         msg |-> <<"save_to_egg failed due to setup.py error", returncode[1]>>])
            /\ result' = Raised("RuntimeError")
            /\ pc' = "failed"
       ELSE /\ result' = Returned(egg_filename(name, version))
            /\ pc' = "done"
            /\ UNCHANGED log
    /\ UNCHANGED <<inputs, wvars, setup_py, script, printed, exitcode, exited,
                   spawned, pipe, returncode, output>>

\* write_via_setuptools() has been called.
InitSetuptools ==
    /\ src_files \in SrcChoices
    /\ distributions = <<Six10, Numpy12>>
    /\ fs \in FsChoices
    /\ script \in ScriptChoices
    /\ exitcode \in {0, 1}
    /\ compress = TRUE
    /\ shrink = 1
    /\ fsize = [f \in Universe |-> 8]
    /\ nameIsLink = FALSE
    /\ listdirRev = FALSE
    /\ egg0 = NoFile
    /\ egg = egg0
    /\ pc = "s_start"
    /\ files = <<>>
    /\ bytes = 0
    /\ sources = <<>>
    /\ requirements = <<>>
    /\ zip64 = FALSE
    /\ next = 0
    /\ log = <<>>
    /\ result = Running
    /\ setup_py = NoSetupPy
    /\ printed = <<>>
    /\ exited = FALSE
    /\ spawned = FALSE
    /\ pipe = <<>>
    /\ returncode = None
    /\ output = <<>>

NextSetuptools ==
    \/ WriteSetupPy
    \/ Spawn
    \/ ToolPrint
    \/ ToolExit
    \/ ReadLine
    \/ Poll
    \/ Drain
    \/ Check

SpecSetuptools == InitSetuptools /\ [][NextSetuptools]_vars

\* ================================================================ claims

LogAt(level) == SelectSeq(log, LAMBDA e : e.level = level)

FileSegs == SelectSeq(egg.segs, LAMBDA e : e.kind = "file")

Count(x, seq) == Cardinality({i \in 1..Len(seq) : seq[i] = x})

IsSorted(seq) == \A i, j \in 1..Len(seq) : i < j => StrLeq(seq[i], seq[j])

NoRepeat(seq) == \A i, j \in 1..Len(seq) : seq[i] = seq[j] => i = j

EGG_INFO == <<"E", "G", "G", "-", "I", "N", "F", "O">>

\* Some explicit source, resolved as <name>/<path>, is not on disk.
SomeSourceMissing ==
    \E i \in 1..Len(src_files) : (<<name>> \o SplitOn(src_files[i], "/")) \notin fs

\* ---------------------------------------------------------------- C1
\* C1: when an explicit source path <name>/<path> is not on disk, write()
\* fails with an error before the destination is opened or created: the
\* destination is exactly what it was before the call (absent if it was
\* absent), nothing has been logged, and the call goes from its start
\* straight to the raised OSError.
C1_MissingSourceWritesNothing ==
    SomeSourceMissing =>
        /\ egg = egg0
        /\ log = <<>>
        /\ pc \in {"start", "failed"}
        /\ pc = "start" => result = Running
        /\ pc = "failed" => result = Raised("OSError")

C1_Witness ==
    /\ SomeSourceMissing
    /\ pc = "failed"
    /\ result = Raised("OSError")
    /\ ~egg.exists
    /\ Len(src_files) = 2

\* ---------------------------------------------------------------- C2
\* The sum the claim names: the seven blobs, the collected files, the prefix.
TotalLogicalSize ==
    TextLen(pkg_info) + TextLen(dependency_links) + TextLen(entry_points)
    + TextLen(not_zip_safe) + Len(requirements) + TextLen(top_level)
    + Len(sources)
    + SumSeq([i \in 1..Len(files) |-> fsize[Components(files[i])]])
    + TextLen(sh_prefix)

\* C2: the container is opened in zip64 mode if and only if the total
\* logical size (all seven metadata blobs, all collected files, the shell
\* prefix) exceeds the standard zip limit.
C2_Zip64IffTotalExceedsLimit ==
    pc \in {"info", "files", "closed", "done"} =>
        (zip64 <=> TotalLogicalSize > ZIP64_LIMIT)

\* ---------------------------------------------------------------- C3
KindRank(k) ==
    CASE k = "prefix" -> 1
      [] k = "info" -> 2
      [] k = "file" -> 3
      [] k = "directory" -> 4
      [] OTHER -> 0

\* C3: the bytes reach the destination in this order: the shell prefix, the
\* seven metadata entries in the fixed order, every manifest entry in sorted
\* order of its path, then the close; at no moment of the call is an entry out
\* of that order, and a finished archive holds exactly these and ends with
\* the close.
C3_WriteOrder ==
    LET segs  == egg.segs
        fixed == << <<"P", "K", "G", "-", "I", "N", "F", "O">>,
                    <<"d", "e", "p", "e", "n", "d", "e", "n", "c", "y", "_", "l",
                      "i", "n", "k", "s", ".", "t", "x", "t">>,
                    <<"e", "n", "t", "r", "y", "_", "p", "o", "i", "n", "t", "s",
                      ".", "t", "x", "t">>,
                    <<"n", "o", "t", "-", "z", "i", "p", "-", "s", "a", "f", "e">>,
                    <<"r", "e", "q", "u", "i", "r", "e", "s", ".", "t", "x", "t">>,
                    <<"t", "o", "p", "_", "l", "e", "v", "e", "l", ".", "t", "x", "t">>,
                    <<"S", "O", "U", "R", "C", "E", "S", ".", "t", "x", "t">> >>
        infos == SelectSeq(segs, LAMBDA e : e.kind = "info")
        fsegs == [i \in 1..Len(FileSegs) |-> FileSegs[i].name]
    IN  pc \notin {"start", "sized"} /\ egg # egg0 =>
          /\ segs # <<>> /\ segs[1].kind = "prefix"
          /\ \A i, j \in 1..Len(segs) :
                i < j => /\ KindRank(segs[i].kind) <= KindRank(segs[j].kind)
                         /\ segs[i].kind \in {"prefix", "directory"}
                                => segs[i].kind # segs[j].kind
          /\ \A i \in 1..Len(infos) :
                i <= Len(fixed) /\ infos[i].name = EGG_INFO \o <<"/">> \o fixed[i]
          /\ Len(fsegs) > 0 => Len(infos) = Len(fixed)
          /\ IsSorted(fsegs)
          /\ \A q \in {fsegs[i] : i \in 1..Len(fsegs)} : Count(q, fsegs) <= Count(q, files)
          /\ pc \in {"closed", "done"} =>
                /\ Len(infos) = Len(fixed)
                /\ \A i \in 1..Len(files) : Count(files[i], fsegs) = Count(files[i], files)
                /\ segs[Len(segs)].kind = "directory"
          /\ pc = "done" => result = Returned(egg_name)

C3_Witness ==
    /\ pc = "done"
    /\ Len(files) >= 4
    /\ ~IsSorted(files)
    /\ Len(src_files) = 2

\* ---------------------------------------------------------------- C4
\* write() has collected the manifest and built the blobs.
Prepared == pc \in {"sized", "prefixed", "info", "files", "closed", "done"}

Marker(d) == Append(d, INIT_PY)

\* What the first pass is meant to reach: the modules below '.' whose every
\* directory on the way holds a package marker and is no symbolic link.
ReachedFromDot ==
    { <<".", "/">> \o JoinAll(f) :
        f \in { g \in fs :
                  /\ EndsWith(g[Len(g)], PY)
                  /\ \A k \in 1..(Len(g) - 1) :
                        /\ Marker(SubSeq(g, 1, k)) \in fs
                        /\ ~(nameIsLink /\ SubSeq(g, 1, k) = <<name>>) } }

\* What the second pass is meant to reach: with <name> a symbolic link, the
\* modules below it whose every directory under <name> holds a marker.
ReachedThroughLink ==
    IF nameIsLink
    THEN { JoinAll(f) :
             f \in { g \in fs :
                       /\ Len(g) >= 2 /\ g[1] = name
                       /\ EndsWith(g[Len(g)], PY)
                       /\ \A k \in 2..(Len(g) - 1) : Marker(SubSeq(g, 1, k)) \in fs } }
    ELSE {}

MetadataNames ==
    { <<"P", "K", "G", "-", "I", "N", "F", "O">>,
      <<"d", "e", "p", "e", "n", "d", "e", "n", "c", "y", "_", "l", "i", "n", "k",
        "s", ".", "t", "x", "t">>,
      <<"e", "n", "t", "r", "y", "_", "p", "o", "i", "n", "t", "s", ".", "t", "x", "t">>,
      <<"n", "o", "t", "-", "z", "i", "p", "-", "s", "a", "f", "e">>,
      <<"r", "e", "q", "u", "i", "r", "e", "s", ".", "t", "x", "t">>,
      <<"t", "o", "p", "_", "l", "e", "v", "e", "l", ".", "t", "x", "t">>,
      <<"S", "O", "U", "R", "C", "E", "S", ".", "t", "x", "t">> }

SelfReferenceLines ==
    { name \o <<".", "e", "g", "g", "-", "i", "n", "f", "o", "/">> \o n \o <<"\n">> :
        n \in MetadataNames }

LineSet(text) == LET ls == Lines(text) IN {ls[i] : i \in 1..Len(ls)}

\* The file a line of SOURCES.txt names.
FileOfLine(l) == Components(SubSeq(l, 1, Len(l) - 1))

\* C4 as claimed: after a successful write(), SOURCES.txt is sorted and holds exactly one line for each
\* Python-module file collected into the manifest, plus the seven
\* self-reference paths, and nothing else.
C4_SourcesListsManifestModules ==
    pc = "done" =>
        LET ls   == Lines(sources)
            mods == {Components(files[i]) :
                        i \in {j \in 1..Len(files) : EndsWith(files[j], PY)}}
            own  == {i \in 1..Len(ls) : ls[i] \in SelfReferenceLines}
        IN  /\ IsSorted(ls)
            /\ \A l \in SelfReferenceLines : Count(l, ls) = 1
            /\ \A m \in mods :
                  Cardinality({i \in 1..Len(ls) \ own : FileOfLine(ls[i]) = m}) = 1
            /\ \A i \in 1..Len(ls) \ own : FileOfLine(ls[i]) \in mods

\* C4 as amended: after a successful write(), SOURCES.txt is sorted and holds exactly one line for each
\* module path met by the traversal (the walk of '.', and the walk of <name>
\* when it is a symbolic link), plus the seven self-reference paths, and
\* nothing else; an explicit source is listed only if the traversal meets it.
C4_SourcesListsTraversedModules ==
    pc = "done" =>
        LET ls == Lines(sources)
        IN  /\ IsSorted(ls)
            /\ NoRepeat(ls)
            /\ LineSet(sources) =
                  { q \o <<"\n">> : q \in ReachedFromDot \cup ReachedThroughLink }
                  \cup SelfReferenceLines
            /\ Concat(ls) = sources

C4_Witness ==
    /\ pc = "done"
    /\ \E i \in 1..Len(files) :
          /\ EndsWith(files[i], PY)
          /\ \A l \in LineSet(sources) : FileOfLine(l) # Components(files[i])
    /\ Cardinality(ReachedFromDot) >= 2
    /\ listdirRev

\* ---------------------------------------------------------------- C5
\* The directory a path lies in is a subdirectory without a package marker.
InUnmarkedSubdirectory(path) ==
    LET c == Components(path)
    IN  Len(c) >= 2 /\ Marker(SubSeq(c, 1, Len(c) - 1)) \notin fs

\* C5 as claimed: no file located in a subdirectory that lacks a package
\* marker appears in the manifest or in the archive, except files reached
\* through the second pass over the symlinked package root.
C5_NoManifestFileInUnmarkedDirectory ==
    Prepared =>
        /\ \A i \in 1..Len(files) :
              InUnmarkedSubdirectory(files[i]) => files[i] \in ReachedThroughLink
        /\ \A i \in 1..Len(FileSegs) :
              InUnmarkedSubdirectory(FileSegs[i].name)
                  => FileSegs[i].name \in ReachedThroughLink

\* C5 as amended: the traversal never descends into a subdirectory that
\* lacks a package marker, and it adds to the manifest no file in or below
\* such a directory (the root of a pass is exempt: '.', and <name> in the
\* second pass over the symbolic link); every other manifest entry is an
\* explicit source, added wherever it lies, and the archive holds only
\* manifest entries.
C5_TraversalStaysInPackages ==
    Prepared =>
        /\ Len(files) >= Len(src_files)
        /\ \A i \in 1..Len(files) :
              LET c == Components(files[i])
              IN  IF i <= Len(src_files)
                  THEN files[i] = name \o <<"/">> \o src_files[i]
                  ELSE IF StartsWith(files[i], <<".", "/">>)
                  THEN \A k \in 1..(Len(c) - 1) :
                          /\ Marker(SubSeq(c, 1, k)) \in fs
                          /\ ~(nameIsLink /\ SubSeq(c, 1, k) = <<name>>)
                  ELSE /\ nameIsLink
                       /\ c[1] = name
                       /\ \A k \in 2..(Len(c) - 1) : Marker(SubSeq(c, 1, k)) \in fs
        /\ \A i \in 1..Len(FileSegs) : Count(FileSegs[i].name, files) > 0

C5_Witness ==
    /\ pc = "done"
    /\ \E i \in 1..Len(FileSegs) :
          /\ InUnmarkedSubdirectory(FileSegs[i].name)
          /\ FileSegs[i].name \notin ReachedThroughLink
    /\ PkgInit \notin fs /\ ~nameIsLink
    /\ \A i \in 1..Len(files) : Components(files[i]) \notin {PkgMod, OtherMod}
    /\ \E i \in 1..Len(files) : Components(files[i]) = TopMod

\* ---------------------------------------------------------------- C6
Perms(seq) ==
    { [i \in 1..Len(seq) |-> seq[f[i]]] :
        f \in { g \in [1..Len(seq) -> 1..Len(seq)] :
                  \A i, j \in 1..Len(seq) : g[i] = g[j] => i = j } }

\* C6: requires.txt is the same for every permutation of the dependency
\* list: one line '<project> == <version>' per dependency, sorted, whatever
\* the order the dependencies came in (two dependencies of one project with
\* different versions included).
C6_RequiresIgnoresInputOrder ==
    Prepared =>
        /\ \A q \in Perms(distributions) : Requirements(q) = requirements
        /\ IsSorted(Lines(requirements))
        /\ Len(Lines(requirements)) = Len(distributions)

\* ---------------------------------------------------------------- C7
\* C7 as claimed: when a file already exists at the destination, write()
\* fails and does not modify or replace it.
C7_ExistingDestinationFails ==
    egg0.exists => egg = egg0 /\ pc # "done"

\* C7 as amended: the archive is created fresh on each call: when a file
\* already exists at the destination and the explicit sources are all on
\* disk, write() does not fail on it; line 146 truncates it, so from then on
\* the destination holds the new shell prefix first and no byte of the old
\* file, and a call that returns leaves the complete new archive there.
C7_ExistingDestinationIsReplaced ==
    egg0.exists =>
        /\ egg.exists
        /\ pc \in {"start", "sized"} => egg = egg0
        /\ pc \in {"prefixed", "info", "files", "closed", "done"} =>
              /\ egg.segs[1].kind = "prefix"
              /\ \A i \in 1..Len(egg.segs) : egg.segs[i].kind # "old"
        /\ pc = "failed" =>
              \/ result = Raised("OSError") /\ egg = egg0
              \/ /\ result = Raised("LargeZipFile")
                 /\ egg.segs[1].kind = "prefix"
                 /\ \A i \in 1..Len(egg.segs) : egg.segs[i].kind # "old"
        /\ pc = "done" =>
              /\ result = Returned(egg_name)
              /\ egg.segs[Len(egg.segs)].kind = "directory"

C7_Witness ==
    /\ egg0.exists
    /\ pc = "done"
    /\ egg.segs[1].kind = "prefix"
    /\ Len(FileSegs) >= 3

\* ---------------------------------------------------------------- C8
\* C8 as amended: the oversized-archive warning is logged, once, exactly
\* when the size of the closed archive on disk exceeds the standard zip
\* limit; it is logged only by a call that then returns the filename (it
\* never aborts the call).  The archive may have been opened without zip64.
C8_WarningIffOversized ==
    LET w == LogAt("warning")
    IN  /\ Len(w) <= 1
        /\ Len(w) = 1 => pc = "done"
        /\ pc = "closed" => result = Running
        /\ pc = "done" =>
              /\ Len(w) = 1 <=> EggSize > ZIP64_LIMIT
              /\ result = Returned(egg_name)
              /\ egg.segs[Len(egg.segs)].kind = "directory"

\* C8 as claimed: as above, and whenever the warning is emitted the archive
\* had been opened in zip64 mode.
C8_WarningOnlyUnderZip64 ==
    /\ C8_WarningIffOversized
    /\ Len(LogAt("warning")) = 1 => zip64

\* A warned archive that was opened without zip64 although even the full
\* logical size is within the limit: the zip headers take it over.
C8_Witness ==
    /\ pc = "done"
    /\ Len(LogAt("warning")) = 1
    /\ result = Returned(egg_name)
    /\ ~zip64
    /\ TotalLogicalSize <= ZIP64_LIMIT

\* ---------------------------------------------------------------- C9
\* msg is what the code logs for a line of the tool: four blanks, then the
\* line without its trailing white space.
IsLoggedLine(msg, line) ==
    \E k \in 0..Len(line) :
        /\ msg = <<" ", " ", " ", " ">> \o SubSeq(line, 1, k)
        /\ \A i \in (k + 1)..Len(line) : line[i] \in {" ", "\t", "\n", "\r"}
        /\ k = 0 \/ line[k] \notin {" ", "\t", "\n", "\r"}

\* C9: every line the tool prints is logged once at debug level, in the
\* order produced; the call ends only after the tool has exited and its
\* output has been read to the end; on a non-zero exit code the buffered
\* lines are replayed at error level, in the same order, before RuntimeError
\* is raised; on exit code zero nothing is logged at error level and the
\* derived filename is returned.
C9_ToolOutputLogged ==
    LET D == LogAt("debug")
        E == LogAt("error")
    IN  /\ Len(D) <= Len(printed)
        /\ \A i \in 1..Len(D) : IsLoggedLine(D[i].msg, printed[i])
        /\ \A i, j \in 1..Len(log) :
              i < j /\ log[i].level = "error" => log[j].level = "error"
        /\ pc \notin {"done", "failed"} => E = <<>> /\ result = Running
        /\ pc \in {"done", "failed"} /\ spawned =>
              /\ exited /\ script = <<>> /\ pipe = <<>>
              /\ returncode = <<exitcode>>
              /\ Len(D) = Len(printed)
              /\ IF exitcode # 0
                 THEN /\ pc = "failed"
                      /\ result = Raised("RuntimeError")
                      /\ Len(E) = Len(D) + 1
                      /\ \A i \in 1..Len(D) : E[i].msg = D[i].msg
                 ELSE /\ pc = "done"
                      /\ E = <<>>
                      /\ result = Returned(name \o <<"-">> \o version
                                           \o <<"-", "p", "y">> \o PyVersion
                                           \o <<".", "e", "g", "g">>)

C9_Witness ==
    /\ pc = "failed"
    /\ spawned
    /\ exitcode = 1
    /\ printed = << <<"e", "r", "r", " ", "\n">>, <<"x">> >>
    /\ Len(LogAt("error")) = 3
    /\ LogAt("debug")[1].msg = <<" ", " ", " ", " ", "e", "r", "r">>

\* --------------------------------------------------------------- C10
\* C10: if an explicit source is missing under <name>/, ValueError is raised
\* before the external tool is spawned and nothing is logged, although
\* setup.py has by then been created and partly written.
C10_MissingSourceStopsBeforeSpawn ==
    SomeSourceMissing =>
        /\ ~spawned
        /\ log = <<>>
        /\ printed = <<>>
        /\ pc \in {"s_start", "failed"}
        /\ pc = "s_start" => setup_py = NoSetupPy /\ result = Running
        /\ pc = "failed" =>
              /\ result = Raised("ValueError")
              /\ setup_py.exists
              /\ ~setup_py.closed
              /\ Len(setup_py.chunks) >= 2
              /\ setup_py.chunks[1] = <<"import setuptools\n">>
              /\ Len(setup_py.chunks) < 2 + Len(src_files)
              /\ \A i \in 1..Len(setup_py.chunks) : setup_py.chunks[i] # <<"]\n">>

C10_Witness ==
    /\ SomeSourceMissing
    /\ pc = "failed"
    /\ result = Raised("ValueError")
    /\ Len(setup_py.chunks) = 3
    /\ ~spawned

====
